---- MODULE Spec2Model ----
(***************************************************************************)
(* Model of the sticker-collector submission pipeline.                     *)
(*                                                                         *)
(*   db_worker/worker.py   main(), process_sticker_pack(),                 *)
(*                         wait_for_postgres(), wait_for_redis()           *)
(*   shared/models.py      StickerPack, UserStickerSubmission and their    *)
(*                         uniqueness constraints                          *)
(*   telegram_bot/bot.py   handle_sticker()                                *)
(*                                                                         *)
(* The Redis list 'sticker_processing' is the variable queue.  The two     *)
(* PostgreSQL tables are the sets sticker_packs and                        *)
(* user_sticker_submissions of committed rows; the INSERTs a session has   *)
(* flushed but not committed are tx_packs[c] and tx_subs[c].  A worker     *)
(* instance c is a sequential process whose position is pc[c]; one action  *)
(* is one statement that talks to Redis or PostgreSQL together with the    *)
(* local code (and exception handlers) that run up to the next one.        *)
(***************************************************************************)
EXTENDS Integers, Sequences, FiniteSets, TLC

\* ------------------------------------------------------------------------
\* Bounds of the model
\* ------------------------------------------------------------------------
NumConsumers == 2
MaxQueue == 2
NumEvents == 2

Consumers == 1..NumConsumers

\* The sticker messages the bot receives; each is handled by one invocation
\* of handle_sticker.
Events == 1..NumEvents

\* ------------------------------------------------------------------------
\* Program constants
\* ------------------------------------------------------------------------
max_attempts == 30
delay == 2

\* ------------------------------------------------------------------------
\* Values
\* ------------------------------------------------------------------------
None == [none |-> TRUE]

Fields == {"short_name", "name", "sticker_type", "link", "user_id"}
FieldOrder == <<"short_name", "name", "sticker_type", "link", "user_id">>

ShortNames == {"abc123", "dogs"}
Users == {555, 777}

Title(s) == IF s = "abc123" THEN "Cats" ELSE "Dogs"
Link(s) == <<"https://t.me/addstickers/", s>>

Envelope(s, u) ==
    [short_name |-> s, name |-> Title(s), sticker_type |-> "regular",
     link |-> Link(s), user_id |-> u]

ValidEnvelopes == {Envelope(s, u) : s \in ShortNames, u \in Users}

\* The dict d without the key f.
Without(d, f) == [k \in (DOMAIN d) \ {f} |-> d[k]]

\* ------------------------------------------------------------------------
\* Wire format: json.dumps / json.loads
\* ------------------------------------------------------------------------
RECURSIVE PairsOf(_, _)
PairsOf(d, order) ==
    IF order = <<>> THEN <<>>
    ELSE IF Head(order) \in DOMAIN d
         THEN <<(<<Head(order), d[Head(order)]>>)>> \o PairsOf(d, Tail(order))
         ELSE PairsOf(d, Tail(order))

\* json.dumps of a dict: the text of an object, its members in key order.
json_dumps(d) == [kind |-> "object", pairs |-> PairsOf(d, FieldOrder)]

\* A payload that is not JSON, and one that is JSON but not an object.
GarbageText == [kind |-> "garbage", pairs |-> <<>>]
ScalarText == [kind |-> "scalar", pairs |-> <<>>]

Keys(pairs) == {pairs[i][1] : i \in DOMAIN pairs}
LastIndex(pairs, k) ==
    CHOOSE i \in DOMAIN pairs :
        /\ pairs[i][1] = k
        /\ \A j \in DOMAIN pairs : pairs[j][1] = k => j <= i

\* json.loads: raises JSONDecodeError on text that is not JSON, returns the
\* decoded value otherwise (a dict for an object).
json_loads(text) ==
    IF text.kind = "garbage" THEN [exc |-> "JSONDecodeError", value |-> None]
    ELSE IF text.kind = "scalar" THEN [exc |-> "", value |-> None]
    ELSE [exc |-> "",
          value |-> [k \in Keys(text.pairs) |->
                        text.pairs[LastIndex(text.pairs, k)][2]]]

\* value[key] on a decoded payload: KeyError when the key is absent,
\* TypeError when the value is not a dict.
HasKey(value, key) == value # None /\ key \in DOMAIN value

MalformedTexts ==
    {GarbageText, ScalarText}
        \cup {json_dumps(Without(Envelope("abc123", 555), f)) : f \in Fields}

WirePayloads == {json_dumps(e) : e \in ValidEnvelopes} \cup MalformedTexts

RECURSIVE SeqsUpTo(_, _)
SeqsUpTo(S, n) ==
    IF n = 0 THEN {<<>>}
    ELSE LET shorter == SeqsUpTo(S, n - 1)
         IN shorter \cup {Append(q, x) : q \in {r \in shorter : Len(r) = n - 1},
                                          x \in S}

\* ------------------------------------------------------------------------
\* State
\* ------------------------------------------------------------------------
VARIABLES
    queue,                      \* the Redis list 'sticker_processing'
    sticker_packs,              \* committed rows of table sticker_packs
    user_sticker_submissions,   \* committed rows of user_sticker_submissions
    sticker_packs_id_seq,       \* next value of sticker_packs.id
    submissions_id_seq,         \* next value of user_sticker_submissions.id
    pc,                         \* position of each worker instance
    sticker_pack_data,          \* the decoded payload a worker is processing
    sticker_pack,               \* local: the pack found or created
    submission,                 \* local: the submission found or created
    tx_packs,                   \* pack rows flushed in the open transaction
    tx_subs,                    \* submission rows flushed in the open transaction
    attempt,                    \* loop variable of wait_for_postgres/_redis
    slept,                      \* seconds slept in the current wait_for_ loop
    pg_ok,                      \* wait_for_postgres() returned True
    redis_ok,                   \* wait_for_redis() returned True
    exit_status,                \* -1 while running, else the exit status
    integrity_errors,           \* history: the payloads whose transaction
                                \* ended in an IntegrityError, with the table
    hpc,                        \* position of each handle_sticker invocation
    message,                    \* its argument: sticker.set_name, from_user.id
    sticker_set,                \* its local: the result of get_sticker_set
    answers,                    \* the texts it passed to message.answer
    pushed                      \* history: the rpush calls that returned

vars == <<queue, sticker_packs, user_sticker_submissions,
          sticker_packs_id_seq, submissions_id_seq, pc, sticker_pack_data,
          sticker_pack, submission, tx_packs, tx_subs, attempt, slept,
          pg_ok, redis_ok, exit_status, integrity_errors,
          hpc, message, sticker_set, answers, pushed>>

storeVars == <<sticker_packs, user_sticker_submissions>>
seqVars == <<sticker_packs_id_seq, submissions_id_seq>>
localVars == <<sticker_pack_data, sticker_pack, submission, tx_packs, tx_subs>>
startVars == <<attempt, slept, pg_ok, redis_ok, exit_status>>
handlerVars == <<hpc, message, sticker_set, answers, pushed>>
workerVars == <<pc, localVars, startVars, integrity_errors>>

LoopPcs == {"blpop", "lookup_pack", "insert_pack", "lookup_sub",
            "flush_sub", "commit", "sleep"}
TxPcs == {"lookup_pack", "insert_pack", "lookup_sub", "flush_sub", "commit"}
StartupPcs == {"wait_for_postgres", "sleep_postgres",
               "wait_for_redis", "sleep_redis"}

\* ------------------------------------------------------------------------
\* shared/models.py
\* ------------------------------------------------------------------------
\* Mutant: the title is stored as short_name and the short name as title.
StickerPack_Swapped(short_name, name, sticker_type, link) ==
    [id |-> 0, short_name |-> name, name |-> short_name,
     sticker_type |-> sticker_type, link |-> link]

\* StickerPack(short_name=..., name=..., sticker_type=..., link=...); the id
\* is None (0) until the INSERT is flushed.
StickerPack(short_name, name, sticker_type, link) ==
    [id |-> 0, short_name |-> short_name, name |-> name,
     sticker_type |-> sticker_type, link |-> link]

\* Mutant: the pack id is read before the flush has assigned it.
UserStickerSubmission_NoPackId(user_id, sticker_pack_id) ==
    [id |-> 0, user_id |-> user_id, sticker_pack_id |-> 0]

\* UserStickerSubmission(user_id=..., sticker_pack_id=...)
UserStickerSubmission(user_id, sticker_pack_id) ==
    [id |-> 0, user_id |-> user_id, sticker_pack_id |-> sticker_pack_id]

\* Mutant: the column is declared without unique=True.
PackUniqueViolation_NotUnique(row, rows) == FALSE

\* Column short_name is unique=True.
PackUniqueViolation(row, rows) ==
    \E r \in rows : r.short_name = row.short_name

\* Mutant: the table is declared without the UniqueConstraint.
SubUniqueViolation_NoConstraint(row, rows) == FALSE

\* UniqueConstraint('user_id', 'sticker_pack_id').
SubUniqueViolation(row, rows) ==
    \E r \in rows : /\ r.user_id = row.user_id
                    /\ r.sticker_pack_id = row.sticker_pack_id

\* ------------------------------------------------------------------------
\* Queries of process_sticker_pack
\* ------------------------------------------------------------------------
\* Mutant: the query filters on the title column.
QueryStickerPack_ByName(rows, short_name) ==
    IF \E r \in rows : r.name = short_name
    THEN CHOOSE r \in rows : r.name = short_name
    ELSE None

\* session.query(StickerPack).filter_by(short_name=...).first()
QueryStickerPack(rows, short_name) ==
    IF \E r \in rows : r.short_name = short_name
    THEN CHOOSE r \in rows : r.short_name = short_name
    ELSE None

\* session.query(UserStickerSubmission).filter_by(user_id=...,
\*     sticker_pack_id=...).first()
QuerySubmission(rows, user_id, sticker_pack_id) ==
    IF \E r \in rows : r.user_id = user_id /\ r.sticker_pack_id = sticker_pack_id
    THEN CHOOSE r \in rows :
            r.user_id = user_id /\ r.sticker_pack_id = sticker_pack_id
    ELSE None

\* Mutant: the new submission is built but never session.add()ed.
SubmissionToAdd_NotAdded(found, user_id, sticker_pack_id) == found

\* `if not submission:` creates the object and session.add()s it; the
\* result is the submission the session holds (id 0: pending INSERT).
SubmissionToAdd(found, user_id, sticker_pack_id) ==
    IF found = None THEN UserStickerSubmission(user_id, sticker_pack_id)
    ELSE found

\* ------------------------------------------------------------------------
\* Exception handlers
\* ------------------------------------------------------------------------
\* Mutant: `except IntegrityError` re-raises like the generic clause.
process_except_Reraise(exc) == "raised"

\* The except clauses of process_sticker_pack (lines 90-103): an
\* IntegrityError is rolled back and swallowed, anything else is rolled back
\* and re-raised to the caller.
process_except(exc) ==
    IF exc = "IntegrityError" THEN "swallowed" ELSE "raised"

\* Mutant: the loop has no `except Exception`; the exception reaches the
\* outer clause of main, which calls sys.exit(1).
main_except_NoLoopHandler(exc) ==
    IF exc = "JSONDecodeError" THEN "blpop"
    ELSE IF exc = "KeyboardInterrupt" THEN "stopped"
    ELSE "exited"

\* The except clauses around the loop of main (lines 183-194): where the
\* worker continues after an exception of the given class.
main_except(exc) ==
    IF exc = "JSONDecodeError" THEN "blpop"
    ELSE IF exc = "KeyboardInterrupt" THEN "stopped"
    ELSE IF exc = "SystemExit" THEN "exited"
    ELSE "sleep"

\* Where the worker is after process_sticker_pack ended with exception exc.
AfterProcessException(exc) ==
    IF process_except(exc) = "swallowed" THEN "blpop" ELSE main_except(exc)

\* ------------------------------------------------------------------------
\* Initial states
\* ------------------------------------------------------------------------
EmptyStore == [packs |-> {}, subs |-> {}]
SeededStore ==
    [packs |-> {[id |-> 1, short_name |-> "abc123", name |-> "Cats",
                 sticker_type |-> "regular", link |-> Link("abc123")]},
     subs |-> {[id |-> 1, user_id |-> 777, sticker_pack_id |-> 1]}]
InitialStores == {EmptyStore, SeededStore}

InitCommon ==
    /\ queue \in SeqsUpTo(WirePayloads, MaxQueue)
    /\ \E st \in InitialStores :
          /\ sticker_packs = st.packs
          /\ user_sticker_submissions = st.subs
          /\ sticker_packs_id_seq = Cardinality(st.packs) + 1
          /\ submissions_id_seq = Cardinality(st.subs) + 1
    /\ sticker_pack_data = [c \in Consumers |-> None]
    /\ sticker_pack = [c \in Consumers |-> None]
    /\ submission = [c \in Consumers |-> None]
    /\ tx_packs = [c \in Consumers |-> {}]
    /\ tx_subs = [c \in Consumers |-> {}]
    /\ attempt = [c \in Consumers |-> 0]
    /\ slept = [c \in Consumers |-> 0]
    /\ exit_status = [c \in Consumers |-> -1]
    /\ integrity_errors = {}
    /\ hpc = [h \in Events |-> "pending"]
    /\ message = [h \in Events |-> None]
    /\ sticker_set = [h \in Events |-> None]
    /\ answers = [h \in Events |-> <<>>]
    /\ pushed = [h \in Events |-> 0]

\* Every worker instance has passed its startup waits (line 168, "Worker
\* ready") and is about to call blpop.
Init ==
    /\ InitCommon
    /\ pc = [c \in Consumers |-> "blpop"]
    /\ pg_ok = [c \in Consumers |-> TRUE]
    /\ redis_ok = [c \in Consumers |-> TRUE]

\* ------------------------------------------------------------------------
\* Leaving a transaction
\* ------------------------------------------------------------------------
\* session.rollback() / session.close(): the flushed INSERTs are discarded,
\* the locals of process_sticker_pack go out of scope.
ClearLocals(c) ==
    /\ sticker_pack_data' = [sticker_pack_data EXCEPT ![c] = None]
    /\ sticker_pack' = [sticker_pack EXCEPT ![c] = None]
    /\ submission' = [submission EXCEPT ![c] = None]
    /\ tx_packs' = [tx_packs EXCEPT ![c] = {}]
    /\ tx_subs' = [tx_subs EXCEPT ![c] = {}]

\* Mutant: no session.rollback(); the flushed INSERTs stay in the database
\* as if the connection were in autocommit mode.
Rollback_Autocommit(c, exc, table) ==
    /\ ClearLocals(c)
    /\ pc' = [pc EXCEPT ![c] = AfterProcessException(exc)]
    /\ integrity_errors' =
          IF exc = "IntegrityError"
          THEN integrity_errors
                  \cup {[data |-> sticker_pack_data[c], table |-> table]}
          ELSE integrity_errors
    /\ sticker_packs' = sticker_packs \cup tx_packs[c]
    /\ user_sticker_submissions' = user_sticker_submissions \cup tx_subs[c]

\* An exception of class exc inside the transaction (an IntegrityError names
\* the table whose constraint was violated): rollback, then the except
\* clauses decide where the worker continues.
Rollback(c, exc, table) ==
    /\ ClearLocals(c)
    /\ pc' = [pc EXCEPT ![c] = AfterProcessException(exc)]
    /\ integrity_errors' =
          IF exc = "IntegrityError"
          THEN integrity_errors
                  \cup {[data |-> sticker_pack_data[c], table |-> table]}
          ELSE integrity_errors
    /\ UNCHANGED storeVars

\* ------------------------------------------------------------------------
\* The loop of main() and process_sticker_pack()
\* ------------------------------------------------------------------------
\* blpop returns a payload (lines 174-181 and 35-41): json.loads, the
\* short_name lookup of the log lines, opening the session.
Blpop(c) ==
    /\ pc[c] = "blpop"
    /\ queue # <<>>
    /\ LET message_data == Head(queue)
           loaded == json_loads(message_data)
       IN /\ queue' = Tail(queue)
          /\ IF loaded.exc = "JSONDecodeError"
             THEN /\ pc' = [pc EXCEPT ![c] = main_except("JSONDecodeError")]
                  /\ UNCHANGED sticker_pack_data
             ELSE IF ~HasKey(loaded.value, "short_name")
             THEN /\ pc' = [pc EXCEPT ![c] = main_except("KeyError")]
                  /\ UNCHANGED sticker_pack_data
             ELSE /\ pc' = [pc EXCEPT ![c] = "lookup_pack"]
                  /\ sticker_pack_data' =
                        [sticker_pack_data EXCEPT ![c] = loaded.value]
    /\ UNCHANGED <<storeVars, seqVars, sticker_pack, submission, tx_packs,
                   tx_subs, startVars, integrity_errors, handlerVars>>

\* blpop times out on the empty list (line 174): result is None, the loop
\* goes round.
BlpopTimeout(c) ==
    /\ pc[c] = "blpop"
    /\ queue = <<>>
    /\ UNCHANGED vars

\* Lines 45-57: SELECT the pack by short_name; if there is none build the
\* StickerPack from the payload and session.add() it.
LookupPack(c) ==
    /\ pc[c] = "lookup_pack"
    /\ LET d == sticker_pack_data[c]
           found == QueryStickerPack(sticker_packs, d["short_name"])
       IN IF found # None
          THEN /\ sticker_pack' = [sticker_pack EXCEPT ![c] = found]
               /\ pc' = [pc EXCEPT ![c] = "lookup_sub"]
               /\ UNCHANGED <<sticker_pack_data, submission, tx_packs,
                              tx_subs, integrity_errors, storeVars>>
          ELSE IF \E f \in {"name", "sticker_type", "link"} : ~HasKey(d, f)
          THEN Rollback(c, "KeyError", "")
          ELSE /\ sticker_pack' =
                     [sticker_pack EXCEPT ![c] =
                         StickerPack(d["short_name"], d["name"],
                                     d["sticker_type"], d["link"])]
               /\ pc' = [pc EXCEPT ![c] = "insert_pack"]
               /\ UNCHANGED <<sticker_pack_data, submission, tx_packs,
                              tx_subs, integrity_errors, storeVars>>
    /\ UNCHANGED <<queue, seqVars, startVars, handlerVars>>

\* Line 58, session.flush(): INSERT INTO sticker_packs.  The id is drawn
\* from the sequence; the INSERT waits while another open transaction holds
\* an uncommitted row with the same short_name, and fails with an
\* IntegrityError when a committed row has it.
InsertPack(c) ==
    /\ pc[c] = "insert_pack"
    /\ \A o \in Consumers \ {c} :
          ~PackUniqueViolation(sticker_pack[c], tx_packs[o])
    /\ sticker_packs_id_seq' = sticker_packs_id_seq + 1
    /\ LET row == [sticker_pack[c] EXCEPT !.id = sticker_packs_id_seq]
       IN IF PackUniqueViolation(row, sticker_packs)
          THEN Rollback(c, "IntegrityError", "sticker_packs")
          ELSE /\ tx_packs' = [tx_packs EXCEPT ![c] = {row}]
               /\ sticker_pack' = [sticker_pack EXCEPT ![c] = row]
               /\ pc' = [pc EXCEPT ![c] = "lookup_sub"]
               /\ UNCHANGED <<sticker_pack_data, submission, tx_subs,
                              integrity_errors, storeVars>>
    /\ UNCHANGED <<queue, submissions_id_seq, startVars, handlerVars>>

\* Lines 64-84: SELECT the submission of (user_id, pack id); if there is
\* none build it and session.add() it.
LookupSub(c) ==
    /\ pc[c] = "lookup_sub"
    /\ LET d == sticker_pack_data[c]
       IN IF ~HasKey(d, "user_id")
          THEN Rollback(c, "KeyError", "")
          ELSE LET found == QuerySubmission(
                               user_sticker_submissions \cup tx_subs[c],
                               d["user_id"], sticker_pack[c].id)
                   held == SubmissionToAdd(found, d["user_id"],
                                           sticker_pack[c].id)
               IN /\ submission' = [submission EXCEPT ![c] = held]
                  /\ pc' = [pc EXCEPT ![c] =
                               IF held # None /\ held.id = 0
                               THEN "flush_sub" ELSE "commit"]
                  /\ UNCHANGED <<sticker_pack_data, sticker_pack, tx_packs,
                                 tx_subs, integrity_errors, storeVars>>
    /\ UNCHANGED <<queue, seqVars, startVars, handlerVars>>

\* Line 87, the flush inside session.commit(): INSERT INTO
\* user_sticker_submissions, with the same waiting and failing as InsertPack.
FlushSub(c) ==
    /\ pc[c] = "flush_sub"
    /\ \A o \in Consumers \ {c} :
          ~SubUniqueViolation(submission[c], tx_subs[o])
    /\ submissions_id_seq' = submissions_id_seq + 1
    /\ LET row == [submission[c] EXCEPT !.id = submissions_id_seq]
       IN IF SubUniqueViolation(row, user_sticker_submissions)
          THEN Rollback(c, "IntegrityError", "user_sticker_submissions")
          ELSE /\ tx_subs' = [tx_subs EXCEPT ![c] = {row}]
               /\ submission' = [submission EXCEPT ![c] = row]
               /\ pc' = [pc EXCEPT ![c] = "commit"]
               /\ UNCHANGED <<sticker_pack_data, sticker_pack, tx_packs,
                              integrity_errors, storeVars>>
    /\ UNCHANGED <<queue, sticker_packs_id_seq, startVars, handlerVars>>

\* Mutant: the found Pack is updated with the name of the payload.
Commit_UpdatesName(c) ==
    /\ pc[c] = "commit"
    /\ sticker_packs' =
          {IF /\ p.short_name = sticker_pack_data[c]["short_name"]
              /\ HasKey(sticker_pack_data[c], "name")
           THEN [p EXCEPT !.name = sticker_pack_data[c]["name"]]
           ELSE p : p \in sticker_packs \cup tx_packs[c]}
    /\ user_sticker_submissions' = user_sticker_submissions \cup tx_subs[c]
    /\ ClearLocals(c)
    /\ pc' = [pc EXCEPT ![c] = "blpop"]
    /\ UNCHANGED <<queue, seqVars, startVars, integrity_errors,
                   handlerVars>>

\* Line 87-99: COMMIT makes the flushed rows visible, session.close().
Commit(c) ==
    /\ pc[c] = "commit"
    /\ sticker_packs' = sticker_packs \cup tx_packs[c]
    /\ user_sticker_submissions' = user_sticker_submissions \cup tx_subs[c]
    /\ ClearLocals(c)
    /\ pc' = [pc EXCEPT ![c] = "blpop"]
    /\ UNCHANGED <<queue, seqVars, startVars, integrity_errors,
                   handlerVars>>

\* Mutant: the handler of the loop ends the process instead of going on.
Sleep_Exit(c) ==
    /\ pc[c] = "sleep"
    /\ pc' = [pc EXCEPT ![c] = "exited"]
    /\ exit_status' = [exit_status EXCEPT ![c] = 1]
    /\ UNCHANGED <<queue, storeVars, seqVars, localVars, attempt, slept,
                   pg_ok, redis_ok, integrity_errors, handlerVars>>

\* Line 188: time.sleep(1) after an exception, then the loop goes round.
Sleep(c) ==
    /\ pc[c] = "sleep"
    /\ pc' = [pc EXCEPT ![c] = "blpop"]
    /\ UNCHANGED <<queue, storeVars, seqVars, localVars, startVars,
                   integrity_errors, handlerVars>>

Process(c) ==
    \/ Blpop(c)
    \/ BlpopTimeout(c)
    \/ LookupPack(c)
    \/ InsertPack(c)
    \/ LookupSub(c)
    \/ FlushSub(c)
    \/ Commit(c)
    \/ Sleep(c)

\* ------------------------------------------------------------------------
\* Failures of the infrastructure and the shutdown signal
\* ------------------------------------------------------------------------
\* blpop raises (Redis unreachable): caught by `except Exception` of the
\* loop, lines 185-188.
RedisError(c) ==
    /\ pc[c] = "blpop"
    /\ pc' = [pc EXCEPT ![c] = main_except("ConnectionError")]
    /\ UNCHANGED <<queue, storeVars, seqVars, localVars, startVars,
                   integrity_errors, handlerVars>>

\* Any statement of the transaction raises an exception other than
\* IntegrityError (lines 94-97, 101-103): rollback, re-raise to the loop.
PersistenceError(c) ==
    /\ pc[c] \in TxPcs
    /\ Rollback(c, "OperationalError", "")
    /\ UNCHANGED <<queue, seqVars, startVars, handlerVars>>

\* KeyboardInterrupt (lines 190-191); the try of line 146 covers the startup
\* waits and the loop.  It is no Exception, so no `except Exception` catches
\* it; inside a transaction only `finally: session.close()` runs, which
\* discards the open transaction; main logs and returns.
Interrupt(c) ==
    /\ pc[c] \in LoopPcs \cup StartupPcs
    /\ ClearLocals(c)
    /\ pc' = [pc EXCEPT ![c] = main_except("KeyboardInterrupt")]
    /\ exit_status' = [exit_status EXCEPT ![c] = 0]
    /\ UNCHANGED <<queue, storeVars, seqVars, attempt, slept, pg_ok,
                   redis_ok, integrity_errors, handlerVars>>

\* ------------------------------------------------------------------------
\* Startup of main(): wait_for_postgres(), wait_for_redis()
\* ------------------------------------------------------------------------
\* Mutant: the loop makes one pass too many.
range_has_next_OffByOne(a, n) == a <= n

\* `for attempt in range(max_attempts)`: is there a pass for this value?
range_has_next(a, n) == a < n

\* The try of one pass of the loop of wait_for_postgres (lines 123-137).
\* ok: the connection succeeded and the function returns True, main goes on
\* to the Redis wait (lines 152-166); otherwise the attempt is counted as
\* failed and the pass goes on to its time.sleep.
PostgresAttempt(c) ==
    /\ pc[c] = "wait_for_postgres"
    /\ range_has_next(attempt[c], max_attempts)
    /\ \E ok \in BOOLEAN :
          IF ok
          THEN /\ pg_ok' = [pg_ok EXCEPT ![c] = TRUE]
               /\ pc' = [pc EXCEPT ![c] = "wait_for_redis"]
               /\ attempt' = [attempt EXCEPT ![c] = 0]
               /\ slept' = [slept EXCEPT ![c] = 0]
          ELSE /\ attempt' = [attempt EXCEPT ![c] = attempt[c] + 1]
               /\ pc' = [pc EXCEPT ![c] = "sleep_postgres"]
               /\ UNCHANGED <<pg_ok, slept>>
    /\ UNCHANGED <<queue, storeVars, seqVars, localVars, redis_ok,
                   exit_status, integrity_errors, handlerVars>>

\* Line 138, time.sleep(delay), has ended: the next pass, or after the last
\* one `return False` and main's sys.exit(1) (lines 140-141, 152-154).
PostgresSleep(c) ==
    /\ pc[c] = "sleep_postgres"
    /\ slept' = [slept EXCEPT ![c] = slept[c] + delay]
    /\ IF range_has_next(attempt[c], max_attempts)
       THEN /\ pc' = [pc EXCEPT ![c] = "wait_for_postgres"]
            /\ UNCHANGED exit_status
       ELSE /\ pc' = [pc EXCEPT ![c] = main_except("SystemExit")]
            /\ exit_status' = [exit_status EXCEPT ![c] = 1]
    /\ UNCHANGED <<queue, storeVars, seqVars, localVars, attempt, pg_ok,
                   redis_ok, integrity_errors, handlerVars>>

\* What main does with the result of wait_for_redis (lines 164-168): the
\* position after the call.
AfterWaitForRedis(result) ==
    IF result THEN "blpop" ELSE main_except("SystemExit")

\* The try of one pass of the loop of wait_for_redis (lines 108-114).  ok:
\* the ping succeeded, the function returns True and main enters its loop
\* (lines 164-171); otherwise the attempt is counted as failed and the pass
\* goes on to its time.sleep.
RedisAttempt(c) ==
    /\ pc[c] = "wait_for_redis"
    /\ range_has_next(attempt[c], max_attempts)
    /\ \E ok \in BOOLEAN :
          IF ok
          THEN /\ redis_ok' = [redis_ok EXCEPT ![c] = TRUE]
               /\ pc' = [pc EXCEPT ![c] = AfterWaitForRedis(TRUE)]
               /\ attempt' = [attempt EXCEPT ![c] = 0]
               /\ slept' = [slept EXCEPT ![c] = 0]
          ELSE /\ attempt' = [attempt EXCEPT ![c] = attempt[c] + 1]
               /\ pc' = [pc EXCEPT ![c] = "sleep_redis"]
               /\ UNCHANGED <<redis_ok, slept>>
    /\ UNCHANGED <<queue, storeVars, seqVars, localVars, pg_ok,
                   exit_status, integrity_errors, handlerVars>>

\* Line 115, time.sleep(delay), has ended: the next pass, or after the last
\* one `return False` and main's sys.exit(1) (lines 117-118, 164-166).
RedisSleep(c) ==
    /\ pc[c] = "sleep_redis"
    /\ slept' = [slept EXCEPT ![c] = slept[c] + delay]
    /\ IF range_has_next(attempt[c], max_attempts)
       THEN /\ pc' = [pc EXCEPT ![c] = "wait_for_redis"]
            /\ UNCHANGED exit_status
       ELSE /\ pc' = [pc EXCEPT ![c] = AfterWaitForRedis(FALSE)]
            /\ exit_status' =
                  [exit_status EXCEPT ![c] =
                      IF AfterWaitForRedis(FALSE) = "exited" THEN 1 ELSE -1]
    /\ UNCHANGED <<queue, storeVars, seqVars, localVars, attempt, pg_ok,
                   redis_ok, integrity_errors, handlerVars>>

\* The worker process is launched: main() is at line 151.
InitStartup ==
    /\ InitCommon
    /\ pc = [c \in Consumers |-> "wait_for_postgres"]
    /\ pg_ok = [c \in Consumers |-> FALSE]
    /\ redis_ok = [c \in Consumers |-> FALSE]

\* The instance that runs when a single worker is deployed.
SingleWorker == {1}

\* ------------------------------------------------------------------------
\* telegram_bot/bot.py: handle_sticker()
\* ------------------------------------------------------------------------
\* sticker.set_name of a sticker that belongs to no set.
NoSetName == ""

\* The texts passed to message.answer (lines 92, 120, 126).
RejectionText == "not in a sticker pack"
ThanksText == "thanks"
ErrorText == "error"

\* Mutant: the check of line 91 is missing.
in_sticker_set_NoCheck(set_name) == TRUE

\* Line 91: `if not sticker.set_name` is the negation of this.
in_sticker_set(set_name) == set_name # NoSetName

\* bot.get_sticker_set(name), when it returns: Telegram's description of the
\* set with that name.
get_sticker_set(set_name) ==
    [name |-> set_name, title |-> Title(set_name), sticker_type |-> "regular"]

\* Mutant: the dict is built without the key 'link'.
handle_sticker_data_NoLink(set, from_user_id) ==
    [short_name |-> set.name, name |-> set.title,
     sticker_type |-> set.sticker_type, user_id |-> from_user_id]

\* Lines 100-106: the dict sticker_pack_data of handle_sticker.
handle_sticker_data(set, from_user_id) ==
    [short_name |-> set.name, name |-> set.title,
     sticker_type |-> set.sticker_type, link |-> Link(set.name),
     user_id |-> from_user_id]

\* Mutant: an envelope that is already waiting in the list is not added.
rpush_Dedup(list, value) ==
    IF \E i \in DOMAIN list : list[i] = value THEN list
    ELSE Append(list, value)

\* Mutant: the envelope is pushed at the head of the list.
rpush_Lpush(list, value) == <<value>> \o list

\* redis_client.rpush(key, value), when it returns: the list with the value
\* appended at its tail.
rpush(list, value) == Append(list, value)

\* Mutant: the acknowledgment is sent before the enqueue.
handle_sticker_next_AckFirst(pos, raised) ==
    IF pos = "get_sticker_set"
    THEN IF raised THEN "error_answer" ELSE "answer"
    ELSE IF pos = "answer"
    THEN IF raised THEN "error_answer" ELSE "rpush"
    ELSE "done"

\* The control flow of lines 95-127: the await that follows the await at pos,
\* which returned or raised an Exception.  An exception of the except branch
\* itself leaves the handler.
handle_sticker_next(pos, raised) ==
    IF pos = "get_sticker_set"
    THEN IF raised THEN "error_answer" ELSE "rpush"
    ELSE IF pos = "rpush"
    THEN IF raised THEN "error_answer" ELSE "answer"
    ELSE IF pos = "answer"
    THEN IF raised THEN "error_answer" ELSE "done"
    ELSE "done"

\* Lines 85-93, up to the first await: the dispatcher calls handle_sticker
\* with a sticker message.
Receive(h) ==
    /\ hpc[h] = "pending"
    /\ \E set_name \in ShortNames \cup {NoSetName}, from_user_id \in Users :
          /\ message' = [message EXCEPT ![h] =
                            [set_name |-> set_name,
                             from_user_id |-> from_user_id]]
          /\ hpc' = [hpc EXCEPT ![h] =
                        IF in_sticker_set(set_name)
                        THEN "get_sticker_set" ELSE "reject_answer"]
    /\ UNCHANGED <<queue, storeVars, seqVars, workerVars, sticker_set,
                   answers, pushed>>

\* Line 92: the rejection reply; the handler returns (or the exception of
\* message.answer leaves it).
RejectAnswer(h) ==
    /\ hpc[h] = "reject_answer"
    /\ answers' = [answers EXCEPT ![h] = Append(@, RejectionText)]
    /\ hpc' = [hpc EXCEPT ![h] = "done"]
    /\ UNCHANGED <<queue, storeVars, seqVars, workerVars, message,
                   sticker_set, pushed>>

\* Line 97: await bot.get_sticker_set(sticker.set_name) returns or raises.
GetStickerSet(h) ==
    /\ hpc[h] = "get_sticker_set"
    /\ \E raised \in BOOLEAN :
          /\ sticker_set' =
                IF raised THEN sticker_set
                ELSE [sticker_set EXCEPT ![h] =
                         get_sticker_set(message[h].set_name)]
          /\ hpc' = [hpc EXCEPT ![h] =
                        handle_sticker_next("get_sticker_set", raised)]
    /\ UNCHANGED <<queue, storeVars, seqVars, workerVars, message, answers,
                   pushed>>

\* Lines 100-112: build the dict, json.dumps it, await redis_client.rpush,
\* which returns or raises.
Rpush(h) ==
    /\ hpc[h] = "rpush"
    /\ \E raised \in BOOLEAN :
          /\ IF raised
             THEN UNCHANGED <<queue, pushed>>
             ELSE /\ queue' =
                        rpush(queue,
                              json_dumps(handle_sticker_data(
                                  sticker_set[h], message[h].from_user_id)))
                  /\ pushed' = [pushed EXCEPT ![h] = @ + 1]
          /\ hpc' = [hpc EXCEPT ![h] = handle_sticker_next("rpush", raised)]
    /\ UNCHANGED <<storeVars, seqVars, workerVars, message, sticker_set,
                   answers>>

\* Lines 119-121: await message.answer(thanks) returns or raises.
Answer(h) ==
    /\ hpc[h] = "answer"
    /\ answers' = [answers EXCEPT ![h] = Append(@, ThanksText)]
    /\ \E raised \in BOOLEAN :
          hpc' = [hpc EXCEPT ![h] = handle_sticker_next("answer", raised)]
    /\ UNCHANGED <<queue, storeVars, seqVars, workerVars, message,
                   sticker_set, pushed>>

\* Lines 123-127: the except branch sends the error reply.
ErrorAnswer(h) ==
    /\ hpc[h] = "error_answer"
    /\ answers' = [answers EXCEPT ![h] = Append(@, ErrorText)]
    /\ \E raised \in BOOLEAN :
          hpc' = [hpc EXCEPT ![h] =
                    handle_sticker_next("error_answer", raised)]
    /\ UNCHANGED <<queue, storeVars, seqVars, workerVars, message,
                   sticker_set, pushed>>

Handle(h) ==
    \/ Receive(h)
    \/ RejectAnswer(h)
    \/ GetStickerSet(h)
    \/ Rpush(h)
    \/ Answer(h)
    \/ ErrorAnswer(h)

\* ------------------------------------------------------------------------
\* Specifications
\* ------------------------------------------------------------------------

\* Any number of worker instances, with infrastructure failures and the
\* shutdown signal.
Next ==
    \E c \in Consumers :
        \/ Process(c)
        \/ RedisError(c)
        \/ PersistenceError(c)
        \/ Interrupt(c)

Spec == Init /\ [][Next]_vars

\* Any number of worker instances on a healthy infrastructure.
NextConc == \E c \in Consumers : Process(c)

SpecConc == Init /\ [][NextConc]_vars

\* The duplicate race: the list holds two or more copies of one valid
\* envelope and nothing else; any number of worker instances on a healthy
\* infrastructure.  No exception reaches the loop, so line 188 is never run.
InitRace ==
    /\ Init
    /\ \E e \in ValidEnvelopes, n \in 2..MaxQueue :
          queue = [i \in 1..n |-> json_dumps(e)]

NextRace ==
    \E c \in Consumers :
        \/ Blpop(c)
        \/ BlpopTimeout(c)
        \/ LookupPack(c)
        \/ InsertPack(c)
        \/ LookupSub(c)
        \/ FlushSub(c)
        \/ Commit(c)

SpecRace == InitRace /\ [][NextRace]_vars

\* The bot alone: the list is empty when it starts and no worker runs.
InitProducer ==
    /\ Init
    /\ queue = <<>>

NextProducer == \E h \in Events : Handle(h)

SpecProducer == InitProducer /\ [][NextProducer]_vars

\* The bot and a single worker instance on a healthy infrastructure.  Every
\* payload is made by the bot, so no exception reaches the loop and line 188
\* is never run.
NextPipeline ==
    \/ \E h \in Events : Handle(h)
    \/ \E c \in SingleWorker :
          \/ Blpop(c)
          \/ BlpopTimeout(c)
          \/ LookupPack(c)
          \/ InsertPack(c)
          \/ LookupSub(c)
          \/ FlushSub(c)
          \/ Commit(c)

SpecPipeline == InitProducer /\ [][NextPipeline]_vars

\* The pack 'abc123' was renamed and its kind changed between the
\* submissions: the envelope handle_sticker makes for it afterwards has the
\* same short_name and link and another name and sticker_type.
Renamed(e) ==
    handle_sticker_data([name |-> e.short_name, title |-> "Kittens",
                         sticker_type |-> "mask"], e.user_id)

\* An envelope another client pushed on the list, with a link of its own.
Relinked(e) == [e EXCEPT !.link = <<"https://telegram.me/addstickers/",
                                   e.short_name>>]

\* What the worker may find on the list for the short_name 'abc123'.
RenamePayloads ==
    {json_dumps(Envelope("abc123", 555)),
     json_dumps(Relinked(Envelope("abc123", 777)))}
        \cup {json_dumps(Renamed(Envelope("abc123", u))) : u \in Users}

InitRename ==
    /\ queue \in SeqsUpTo(RenamePayloads, MaxQueue)
    /\ \E st \in InitialStores :
          /\ sticker_packs = st.packs
          /\ user_sticker_submissions = st.subs
          /\ sticker_packs_id_seq = Cardinality(st.packs) + 1
          /\ submissions_id_seq = Cardinality(st.subs) + 1
    /\ sticker_pack_data = [c \in Consumers |-> None]
    /\ sticker_pack = [c \in Consumers |-> None]
    /\ submission = [c \in Consumers |-> None]
    /\ tx_packs = [c \in Consumers |-> {}]
    /\ tx_subs = [c \in Consumers |-> {}]
    /\ attempt = [c \in Consumers |-> 0]
    /\ slept = [c \in Consumers |-> 0]
    /\ exit_status = [c \in Consumers |-> -1]
    /\ integrity_errors = {}
    /\ hpc = [h \in Events |-> "pending"]
    /\ message = [h \in Events |-> None]
    /\ sticker_set = [h \in Events |-> None]
    /\ answers = [h \in Events |-> <<>>]
    /\ pushed = [h \in Events |-> 0]
    /\ pc = [c \in Consumers |-> "blpop"]
    /\ pg_ok = [c \in Consumers |-> TRUE]
    /\ redis_ok = [c \in Consumers |-> TRUE]

SpecRename == InitRename /\ [][Next]_vars

\* A single worker instance on a healthy infrastructure.
NextSeq == \E c \in SingleWorker : Process(c)

SpecSeq == Init /\ [][NextSeq]_vars

\* A single worker instance that keeps running: Redis answers its blpop, the
\* store may fail in any transaction, no shutdown signal arrives, and the
\* bot has stopped enqueueing.  The process is sequential, so its next
\* statement is eventually executed.
NextDrain ==
    \E c \in SingleWorker :
        \/ Process(c)
        \/ PersistenceError(c)

SpecDrain ==
    /\ Init
    /\ [][NextDrain]_vars
    /\ \A c \in SingleWorker : WF_vars(Process(c))

\* A single worker instance from the launch of its process; it keeps
\* running, so a pending pass of a wait loop is eventually made.
NextStartup ==
    \E c \in SingleWorker :
        \/ PostgresAttempt(c)
        \/ PostgresSleep(c)
        \/ RedisAttempt(c)
        \/ RedisSleep(c)
        \/ Process(c)
        \/ Interrupt(c)

SpecStartup ==
    /\ InitStartup
    /\ [][NextStartup]_vars
    /\ \A c \in SingleWorker :
          WF_vars(PostgresAttempt(c) \/ PostgresSleep(c)
                     \/ RedisAttempt(c) \/ RedisSleep(c))

\* ------------------------------------------------------------------------
\* Vocabulary of the properties
\* ------------------------------------------------------------------------
TypeOK ==
    /\ \A c \in Consumers :
          pc[c] \in LoopPcs \cup StartupPcs \cup {"stopped", "exited"}
    /\ Len(queue) <= MaxQueue + NumEvents
    /\ \A h \in Events :
          hpc[h] \in {"pending", "reject_answer", "get_sticker_set", "rpush",
                      "answer", "error_answer", "done"}

PacksNamed(rows, s) == {p \in rows : p.short_name = s}
SubsOf(rows, u, pack_id) ==
    {r \in rows : r.user_id = u /\ r.sticker_pack_id = pack_id}

\* Exactly one Pack for s and exactly one Submission of u for that Pack.
OnePackOneSub(s, u) ==
    /\ Cardinality(PacksNamed(sticker_packs, s)) = 1
    /\ \A p \in PacksNamed(sticker_packs, s) :
          Cardinality(SubsOf(user_sticker_submissions, u, p.id)) = 1

\* Some Pack for s and some Submission of u for it.
Recorded(s, u) ==
    \E p \in PacksNamed(sticker_packs, s) :
        SubsOf(user_sticker_submissions, u, p.id) # {}

AllIdle == \A c \in Consumers : pc[c] = "blpop"

\* ------------------------------------------------------------------------
\* Properties
\* ------------------------------------------------------------------------

\* C1: with a single worker on a healthy infrastructure, every processing of
\* a valid envelope (s, u) ends at the dequeue without any error (none raised
\* to the loop, no constraint violation rolled back) and leaves exactly one
\* Pack for s and exactly one Submission of u for it; that stays so whatever
\* is processed afterwards, and processing the envelope again in such a
\* store adds no row.  Hence N >= 1 processings of the same envelope leave
\* exactly one row of each.
C1_Idempotent ==
    /\ [][\A c \in SingleWorker :
             \A e \in ValidEnvelopes :
                (pc[c] \in TxPcs /\ sticker_pack_data[c] = e)
                   => /\ pc'[c] \in TxPcs \cup {"blpop"}
                      /\ integrity_errors' = integrity_errors
                      /\ pc'[c] = "blpop"
                            => OnePackOneSub(e.short_name, e.user_id)'
                      /\ OnePackOneSub(e.short_name, e.user_id)
                            => UNCHANGED storeVars]_vars
    /\ [][\A e \in ValidEnvelopes :
             OnePackOneSub(e.short_name, e.user_id)
                => OnePackOneSub(e.short_name, e.user_id)']_vars

\* The worker is at the commit of an envelope that it recorded before (its
\* rows are in the store and were not there initially) and adds nothing.
C1_Witness ==
    \E c \in SingleWorker :
        \E e \in ValidEnvelopes :
            /\ pc[c] = "commit"
            /\ sticker_pack_data[c] = e
            /\ tx_packs[c] = {} /\ tx_subs[c] = {}
            /\ OnePackOneSub(e.short_name, e.user_id)
            /\ \A p \in SeededStore.packs :
                  SubsOf(SeededStore.subs, e.user_id, p.id) = {}

\* C2: in every reachable committed state of the store no two Submission
\* rows have the same (user_id, pack_id).
C2_SubmissionUnique ==
    \A r1, r2 \in user_sticker_submissions :
        (r1.user_id = r2.user_id /\ r1.sticker_pack_id = r2.sticker_pack_id)
            => r1 = r2

\* Two instances raced on the same Submission; one INSERT was refused and the
\* other row is in the store.
C2_Witness ==
    \E x \in integrity_errors :
        /\ x.table = "user_sticker_submissions"
        /\ Recorded(x.data["short_name"], x.data["user_id"])

\* C3: there is at most one Pack row per short_name in every reachable
\* committed state, and exactly one for the short_name of an envelope whose
\* transaction commits.
C3_PackUnique ==
    /\ [](\A p1, p2 \in sticker_packs :
             p1.short_name = p2.short_name => p1 = p2)
    /\ [][\A c \in Consumers :
             (pc[c] = "commit" /\ pc'[c] = "blpop")
                => Cardinality(PacksNamed(sticker_packs',
                                 sticker_pack_data[c]["short_name"])) = 1]_vars

\* Two instances raced on the same Pack; one INSERT was refused and exactly
\* one row for the short_name is in the store.
C3_Witness ==
    \E x \in integrity_errors :
        /\ x.table = "sticker_packs"
        /\ Cardinality(PacksNamed(sticker_packs, x.data["short_name"])) = 1

\* C4: when the list holds only copies of one valid envelope (two or more)
\* and the worker instances process them with their steps interleaved in any
\* order, every instance that finishes a copy -- by committing or by a
\* swallowed IntegrityError -- is back at the dequeue (not in the loop's
\* exception handler, not stopped) and the store then holds exactly one Pack
\* and exactly one Submission for the envelope, which stays so to the end.
C4_DuplicateRace ==
    /\ [][\A c \in Consumers :
             \A e \in ValidEnvelopes :
                (pc[c] \in TxPcs /\ sticker_pack_data[c] = e
                    /\ pc'[c] \notin TxPcs)
                   => /\ pc'[c] = "blpop"
                      /\ OnePackOneSub(e.short_name, e.user_id)']_vars
    /\ [][\A e \in ValidEnvelopes :
             OnePackOneSub(e.short_name, e.user_id)
                => OnePackOneSub(e.short_name, e.user_id)']_vars
    /\ [][\A c \in Consumers :
             (integrity_errors' # integrity_errors /\ pc'[c] # pc[c])
                => pc'[c] = "blpop"]_vars

\* All copies are processed, one instance lost the race with an
\* IntegrityError, all instances are back at the dequeue and the store holds
\* one Pack and one Submission for the envelope.
C4_Witness ==
    /\ queue = <<>>
    /\ AllIdle
    /\ \E x \in integrity_errors :
          OnePackOneSub(x.data["short_name"], x.data["user_id"])

\* C5: whenever the transaction of a valid envelope (s, u) was rolled back
\* because of a uniqueness violation, then once all instances are back at the
\* dequeue the store holds a Pack for s and a Submission of u for it.
C5_ViolationIsCompletion ==
    AllIdle =>
        \A x \in integrity_errors :
            x.data \in ValidEnvelopes
                => Recorded(x.data["short_name"], x.data["user_id"])

\* C6: with a single worker on a healthy infrastructure, processing a valid
\* envelope whose short_name has no Pack row changes the store only at its
\* commit, always reaches that commit, and the commit adds exactly one Pack
\* row carrying the envelope's short_name, name, sticker_type and link and
\* exactly one Submission row of the envelope's user_id for that Pack; every
\* other row stays as it is.
C6_NewPack ==
    [][\A c \in SingleWorker :
          LET d == sticker_pack_data[c] IN
          (/\ pc[c] \in TxPcs
           /\ d \in ValidEnvelopes
           /\ PacksNamed(sticker_packs, d["short_name"]) = {})
             => IF pc[c] = "commit"
                THEN /\ pc'[c] = "blpop"
                     /\ \E p \in sticker_packs' \ sticker_packs :
                           /\ sticker_packs' = sticker_packs \cup {p}
                           /\ p.id # 0
                           /\ p.short_name = d["short_name"]
                           /\ p.name = d["name"]
                           /\ p.sticker_type = d["sticker_type"]
                           /\ p.link = d["link"]
                           /\ \E r \in user_sticker_submissions'
                                          \ user_sticker_submissions :
                                 /\ user_sticker_submissions' =
                                       user_sticker_submissions \cup {r}
                                 /\ r.user_id = d["user_id"]
                                 /\ r.sticker_pack_id = p.id
                ELSE /\ UNCHANGED storeVars
                     /\ pc'[c] \in TxPcs]_vars

\* A payload was processed and the store holds a Pack that was not there
\* initially, with the fields of a valid envelope and its Submission.
C6_Witness ==
    /\ \A c \in SingleWorker : pc[c] = "blpop"
    /\ \E e \in ValidEnvelopes :
          \E p \in sticker_packs \ SeededStore.packs :
              /\ p.short_name = e.short_name /\ p.name = e.name
              /\ p.sticker_type = e.sticker_type /\ p.link = e.link
              /\ SubsOf(user_sticker_submissions, e.user_id, p.id) # {}

\* C7: with a single worker on a healthy infrastructure, processing a valid
\* envelope whose short_name already has a Pack row never adds a Pack row,
\* always reaches its commit, and the commit adds nothing when the
\* (user_id, pack) pair is recorded and otherwise exactly one Submission row
\* whose pack id is the existing Pack's id.
C7_ExistingPack ==
    [][\A c \in SingleWorker :
          LET d == sticker_pack_data[c] IN
          (/\ pc[c] \in TxPcs
           /\ d \in ValidEnvelopes
           /\ PacksNamed(sticker_packs, d["short_name"]) # {})
             => /\ sticker_packs' = sticker_packs
                /\ IF pc[c] = "commit"
                   THEN /\ pc'[c] = "blpop"
                        /\ \A p \in PacksNamed(sticker_packs, d["short_name"]) :
                              IF SubsOf(user_sticker_submissions,
                                        d["user_id"], p.id) # {}
                              THEN UNCHANGED user_sticker_submissions
                              ELSE \E r \in user_sticker_submissions'
                                               \ user_sticker_submissions :
                                      /\ user_sticker_submissions' =
                                            user_sticker_submissions \cup {r}
                                      /\ r.user_id = d["user_id"]
                                      /\ r.sticker_pack_id = p.id
                   ELSE /\ UNCHANGED user_sticker_submissions
                        /\ pc'[c] \in TxPcs]_vars

\* A second user's envelope for an existing Pack was processed: one Pack row
\* for the short_name, referenced by the Submissions of two users.
C7_Witness ==
    /\ \A c \in SingleWorker : pc[c] = "blpop"
    /\ \E p \in sticker_packs :
          /\ Cardinality(PacksNamed(sticker_packs, p.short_name)) = 1
          /\ Cardinality({r \in user_sticker_submissions :
                             r.sticker_pack_id = p.id}) >= 2
          /\ \E r \in user_sticker_submissions \ SeededStore.subs :
                r.sticker_pack_id = p.id

\* C8: while a worker processes a decoded payload that lacks one of the
\* fields short_name, name, sticker_type, link, user_id, none of its steps
\* changes the committed store (no Pack and no Submission row is added) and
\* the worker stays in its loop.
C8_MalformedDiscarded ==
    [][\A c \in Consumers :
          (/\ pc[c] \in TxPcs
           /\ \E f \in Fields : ~HasKey(sticker_pack_data[c], f)
           /\ pc'[c] # pc[c])
             => /\ UNCHANGED storeVars
                /\ pc'[c] \in LoopPcs \cup {"stopped"}]_vars

\* C9: a worker that is in its loop stays in its loop at every step, whatever
\* fails (malformed payload, constraint violation, Redis or persistence
\* exception); the only way out is the shutdown signal, with status 0.  From
\* the exception handler of the loop it goes back to the dequeue, and a
\* worker that exited with an error had not reached both dependencies.
C9_FailureIsolation ==
    /\ [][\A c \in Consumers :
             pc[c] \in LoopPcs
                => /\ pc'[c] \in LoopPcs \cup {"stopped"}
                   /\ pc'[c] = "stopped" => exit_status'[c] = 0
                   /\ pc'[c] # "stopped" => exit_status'[c] = -1
                   /\ (pc[c] = "sleep" /\ pc'[c] # pc[c])
                         => pc'[c] \in {"blpop", "stopped"}]_vars
    /\ [](\A c \in Consumers :
             pc[c] = "exited" => ~(pg_ok[c] /\ redis_ok[c]))

\* An exception was raised to the loop while payloads are waiting; the
\* worker is in the handler, about to return to the dequeue.
C9_Witness ==
    \E c \in Consumers :
        /\ pc[c] = "sleep"
        /\ queue # <<>>
        /\ exit_status[c] = -1

\* C10, as claimed: the worker makes at most max_attempts tries per
\* dependency, it is in its loop only if both were reached, and when a
\* dependency failed max_attempts times the process ends with a non-zero
\* status.
C10_ExitsNonZero ==
    \A c \in SingleWorker :
        /\ attempt[c] <= max_attempts
        /\ pc[c] \in LoopPcs => (pg_ok[c] /\ redis_ok[c])
        /\ (attempt[c] = max_attempts /\ pc[c] \in {"exited", "stopped"})
              => exit_status[c] >= 1

\* C10, amended: the worker makes at most max_attempts tries per dependency,
\* sleeping the fixed delay after each failed one, the store first and the
\* queue second; it is in its loop only if both were reached; when a
\* dependency failed max_attempts times it exits with status 1 at the end of
\* the last sleep and stays exited, unless the shutdown signal arrives during
\* that sleep and stops it with status 0; it exits with status 1 in no other
\* case; outside its loop (during startup, after the exit or the stop) it
\* never dequeues a payload; and the startup phase always ends.
C10_BoundedStartup ==
    /\ [](\A c \in SingleWorker :
             /\ attempt[c] <= max_attempts
             /\ pc[c] \in {"wait_for_postgres", "wait_for_redis", "exited"}
                   => slept[c] = delay * attempt[c]
             /\ pc[c] \in {"sleep_postgres", "sleep_redis"}
                   => /\ attempt[c] >= 1
                      /\ slept[c] = delay * (attempt[c] - 1)
                      /\ exit_status[c] = -1
             /\ pc[c] \in {"wait_for_postgres", "wait_for_redis"}
                   => (attempt[c] < max_attempts /\ exit_status[c] = -1)
             /\ pc[c] \in {"wait_for_redis", "sleep_redis"} => pg_ok[c]
             /\ pc[c] \in LoopPcs => (pg_ok[c] /\ redis_ok[c])
             /\ pc[c] = "exited"
                   => /\ exit_status[c] = 1
                      /\ attempt[c] = max_attempts
                      /\ ~(pg_ok[c] /\ redis_ok[c])
             /\ pc[c] = "stopped" => exit_status[c] = 0)
    /\ [][\A c \in SingleWorker :
             /\ pc[c] = "exited" => pc'[c] = "exited"
             /\ pc[c] \notin LoopPcs => queue' = queue
             /\ (/\ pc[c] \in {"sleep_postgres", "sleep_redis"}
                 /\ attempt[c] = max_attempts
                 /\ pc'[c] # pc[c])
                   => \/ pc'[c] = "exited" /\ exit_status'[c] = 1
                      \/ pc'[c] = "stopped" /\ exit_status'[c] = 0]_vars
    /\ \A c \in SingleWorker : <>(pc[c] \notin StartupPcs)

\* PostgreSQL was reached but Redis failed max_attempts times: the worker
\* exited with status 1 and the payloads are still in the list.
C10_Witness ==
    \E c \in SingleWorker :
        /\ pc[c] = "exited"
        /\ pg_ok[c]
        /\ attempt[c] = max_attempts
        /\ queue # <<>>

\* The envelope handle_sticker is to enqueue for event h.
EnvelopeOf(h) == Envelope(message[h].set_name, message[h].from_user_id)

\* The handler of event h takes a step.
Handles(h) == hpc'[h] # hpc[h]

\* C11: every event whose pack was resolved makes one enqueue call; a call
\* that returns appends exactly one envelope, that event's, at the tail of
\* the list, whatever the list and the store already hold; so the list holds
\* one envelope per event whose call returned (k envelopes for k such events,
\* also when they are equal), and the bot never writes the store.
C11_OneEnqueuePerEvent ==
    /\ [](/\ \A h \in Events :
                /\ pushed[h] <= 1
                /\ pushed[h] = 1
                      <=> (hpc[h] = "answer"
                              \/ \E i \in DOMAIN answers[h] :
                                    answers[h][i] = ThanksText)
          /\ Len(queue) = Cardinality({h \in Events : pushed[h] = 1}))
    /\ [][\A h \in Events :
             Handles(h)
                => /\ hpc'[h] = "rpush"
                      => (hpc[h] = "get_sticker_set" /\ sticker_set'[h] # None)
                   /\ (hpc[h] = "rpush" /\ hpc'[h] = "answer")
                         => queue' = Append(queue, json_dumps(EnvelopeOf(h)))
                   /\ ~(hpc[h] = "rpush" /\ hpc'[h] = "answer")
                         => queue' = queue
                   /\ UNCHANGED storeVars]_vars

\* Two events of the same user for the same pack, which the store already
\* records for that user, were both acknowledged: the list holds the same
\* envelope twice.
C11_Witness ==
    /\ \A h \in Events : hpc[h] = "done" /\ answers[h] = <<ThanksText>>
    /\ Len(queue) = NumEvents
    /\ \A i \in DOMAIN queue : queue[i] = json_dumps(Envelope("abc123", 777))
    /\ Recorded("abc123", 777)

\* C12: the handler of an event without set_name only sends the rejection
\* reply and returns: none of its steps changes the list, it never calls
\* get_sticker_set or rpush, and when it is done the one text it passed to
\* message.answer is the rejection.
C12_RejectWithoutPack ==
    [][\A h \in Events :
          (Handles(h) /\ message'[h].set_name = NoSetName)
             => /\ hpc'[h] \in {"reject_answer", "done"}
                /\ queue' = queue
                /\ sticker_set'[h] = None
                /\ pushed'[h] = 0
                /\ hpc'[h] = "done" => answers'[h] = <<RejectionText>>]_vars

\* An event without set_name was rejected while another event was enqueued.
C12_Witness ==
    \E h \in Events :
        /\ hpc[h] = "done"
        /\ message[h].set_name = NoSetName
        /\ answers[h] = <<RejectionText>>
        /\ queue # <<>>

\* The handler of event h passed the text to message.answer.
Answered(h, text) == \E i \in DOMAIN answers[h] : answers[h][i] = text

\* C13: whenever the handler of an event has sent the error reply (its except
\* branch), no envelope of that event has been appended to the list.
C13_NoPartialState ==
    \A h \in Events : Answered(h, ErrorText) => pushed[h] = 0

\* C14: the thank-you acknowledgment of an event is passed to message.answer
\* only after the rpush of that event's envelope has returned, and in the
\* state after the rpush the acknowledgment can be sent at once, whatever the
\* worker is doing and whether or not the envelope was taken from the list.
C14_AckAfterEnqueue ==
    \A h \in Events :
        /\ Answered(h, ThanksText) => pushed[h] = 1
        /\ hpc[h] = "answer" => (pushed[h] = 1 /\ ENABLED Answer(h))

\* The acknowledgment was sent while the envelope is still in the list, the
\* worker has not taken it and the store has no Pack for it.
C14_Witness ==
    \E h \in Events :
        /\ answers[h] = <<ThanksText>>
        /\ hpc[h] = "done"
        /\ \E i \in DOMAIN queue : queue[i] = json_dumps(EnvelopeOf(h))
        /\ PacksNamed(sticker_packs, message[h].set_name) = {}
        /\ \A c \in Consumers : pc[c] = "blpop"

\* C15: every entry the bot has put on the list decodes to a dict with
\* exactly the keys short_name, name, sticker_type, link, user_id whose link
\* is 'https://t.me/addstickers/' followed by its short_name; the worker
\* takes every such entry into a transaction (no JSONDecodeError, no
\* KeyError: it is never in the exception handler of the loop), holds it
\* there unchanged as the envelope of an acknowledged or pending event, and a
\* Pack it creates carries the entry's short_name, name, sticker_type, link.
C15_WireFormat ==
    /\ [](/\ \A i \in DOMAIN queue :
                LET loaded == json_loads(queue[i])
                IN /\ loaded.exc = ""
                   /\ loaded.value # None
                   /\ DOMAIN loaded.value = Fields
                   /\ loaded.value["link"]
                         = <<"https://t.me/addstickers/",
                             loaded.value["short_name"]>>
                   /\ \E h \in Events :
                         pushed[h] = 1 /\ loaded.value = EnvelopeOf(h)
          /\ \A c \in SingleWorker :
                /\ pc[c] # "sleep"
                /\ pc[c] \in TxPcs
                      => \E h \in Events :
                            /\ pushed[h] = 1
                            /\ sticker_pack_data[c] = EnvelopeOf(h)
                /\ \A p \in tx_packs[c] :
                      /\ p.short_name = sticker_pack_data[c]["short_name"]
                      /\ p.name = sticker_pack_data[c]["name"]
                      /\ p.sticker_type = sticker_pack_data[c]["sticker_type"]
                      /\ p.link = sticker_pack_data[c]["link"])
    /\ [][\A c \in SingleWorker :
             /\ (queue # <<>> /\ queue' = Tail(queue))
                   => pc'[c] = "lookup_pack"
             /\ (pc[c] = "commit" /\ pc'[c] = "blpop")
                   => sticker_packs' = sticker_packs \cup tx_packs[c]]_vars

\* The worker has recorded the envelope of an acknowledged event: the store
\* holds a Pack that was not there initially with the four values the bot
\* sent, and the sender's Submission for it.
C15_Witness ==
    \E h \in Events :
        /\ answers[h] = <<ThanksText>>
        /\ \E p \in sticker_packs \ SeededStore.packs :
              /\ p.short_name = message[h].set_name
              /\ p.name = Title(message[h].set_name)
              /\ p.sticker_type = "regular"
              /\ p.link = Link(message[h].set_name)
              /\ SubsOf(user_sticker_submissions,
                        message[h].from_user_id, p.id) # {}

\* The step is the commit of worker c.
Commits(c) == pc[c] = "commit" /\ pc'[c] = "blpop"

\* C16: the store changes only in the commit of a transaction, which adds
\* the transaction's flushed rows all at once, and a new Pack never appears
\* without a new Submission that references it.  A worker that leaves a
\* transaction in any other way (exception, constraint violation, missing
\* field, shutdown signal) has discarded its flushed rows in that step and
\* the committed store is as it was; outside a transaction a worker holds no
\* flushed row.
C16_Atomicity ==
    /\ [][/\ (sticker_packs' # sticker_packs
                 \/ user_sticker_submissions' # user_sticker_submissions)
             => \E c \in Consumers :
                   /\ Commits(c)
                   /\ sticker_packs' = sticker_packs \cup tx_packs[c]
                   /\ user_sticker_submissions'
                         = user_sticker_submissions \cup tx_subs[c]
          /\ \A p \in sticker_packs' \ sticker_packs :
                \E r \in user_sticker_submissions'
                            \ user_sticker_submissions :
                   r.sticker_pack_id = p.id
          /\ \A c \in Consumers :
                (pc[c] \in TxPcs /\ pc'[c] \notin TxPcs /\ ~Commits(c))
                   => /\ tx_packs'[c] = {} /\ tx_subs'[c] = {}
                      /\ UNCHANGED storeVars]_vars
    /\ [](\A c \in Consumers :
             pc[c] \notin TxPcs => (tx_packs[c] = {} /\ tx_subs[c] = {}))

\* A worker was stopped by the shutdown signal; a Pack INSERT had been
\* flushed (its id is used up) and was discarded without any constraint
\* violation: the store holds no row with that id.
C16_Witness ==
    /\ \E c \in Consumers : pc[c] = "stopped"
    /\ integrity_errors = {}
    /\ \A c \in Consumers : tx_packs[c] = {}
    /\ \E id \in 1..(sticker_packs_id_seq - 1) :
          \A p \in sticker_packs : p.id # id

\* C17: every step of every worker keeps every Pack row and every Submission
\* row as it is (no row is deleted, no column of a row changes) and a row
\* that is added has a fresh id and, for a Pack, a short_name no row had; so
\* when an envelope carries the short_name of a Pack with another name,
\* sticker_type or link, the Pack keeps the values it was committed with.
C17_NeverUpdated ==
    [][/\ sticker_packs \subseteq sticker_packs'
       /\ user_sticker_submissions \subseteq user_sticker_submissions'
       /\ \A p \in sticker_packs' \ sticker_packs :
             \A q \in sticker_packs :
                q.id # p.id /\ q.short_name # p.short_name
       /\ \A r \in user_sticker_submissions' \ user_sticker_submissions :
             \A q \in user_sticker_submissions : q.id # r.id]_vars

\* The Pack 'abc123' was committed as 'Cats' and a later envelope of user
\* 777 that calls it 'Kittens', or gives another link, was recorded: the
\* Pack is unchanged and has the Submissions of both users.
C17_Witness ==
    /\ queue = <<>>
    /\ AllIdle
    /\ \E p \in sticker_packs :
          /\ p.short_name = "abc123" /\ p.name = "Cats"
          /\ p.sticker_type = "regular" /\ p.link = Link("abc123")
          /\ SubsOf(user_sticker_submissions, 555, p.id) # {}
          /\ SubsOf(user_sticker_submissions, 777, p.id) \ SeededStore.subs
                # {}

\* C18: the list changes in two ways only.  An rpush that returns puts its
\* envelope behind all entries of the list and moves no worker; a blpop on a
\* non-empty list removes the entry at the head, and exactly one worker takes
\* that entry up (decoded) while the other workers stay as they are.  So
\* with one bot and one worker the entries are taken up in the order of
\* their enqueueing.  On the empty list no worker leaves the dequeue and the
\* store stays as it is.
C18_Fifo ==
    [][/\ \/ queue' = queue
          \/ /\ \E h \in Events :
                   /\ hpc[h] = "rpush" /\ Handles(h)
                   /\ queue' = Append(queue, json_dumps(EnvelopeOf(h)))
             /\ UNCHANGED <<pc, sticker_pack_data, storeVars>>
          \/ /\ queue # <<>>
             /\ queue' = Tail(queue)
             /\ \E c \in Consumers :
                   /\ pc[c] = "blpop"
                   /\ pc'[c] = "lookup_pack"
                   /\ sticker_pack_data'[c] = json_loads(Head(queue)).value
                   /\ \A o \in Consumers \ {c} :
                         /\ pc'[o] = pc[o]
                         /\ sticker_pack_data'[o] = sticker_pack_data[o]
             /\ UNCHANGED <<hpc, storeVars>>
       /\ \A c \in Consumers :
             (pc[c] = "blpop" /\ queue = <<>>)
                => (pc'[c] = "blpop" /\ sticker_pack_data'[c] = None)
       /\ (queue = <<>> /\ AllIdle) => UNCHANGED storeVars]_vars

\* Two different envelopes were enqueued; the worker has taken up one of
\* them and the other is the only entry left in the list.
C18_Witness ==
    \E h1, h2 \in Events :
        /\ pushed[h1] = 1 /\ pushed[h2] = 1
        /\ EnvelopeOf(h1) # EnvelopeOf(h2)
        /\ queue = <<json_dumps(EnvelopeOf(h2))>>
        /\ \E c \in SingleWorker :
              /\ pc[c] = "lookup_pack"
              /\ sticker_pack_data[c] = EnvelopeOf(h1)

\* C19: while a worker keeps running, the list only shrinks, by its head
\* entry (an entry that was taken is never put back, whether it was valid,
\* malformed or its transaction failed); the worker returns to the dequeue
\* after every entry; and the list eventually is empty and stays empty.
C19_Drained ==
    /\ [][/\ Len(queue') <= Len(queue)
          /\ queue' # queue => queue' = Tail(queue)]_vars
    /\ \A c \in SingleWorker : []<>(pc[c] = "blpop")
    /\ \A n \in 1..MaxQueue : (Len(queue) = n) ~> (Len(queue) < n)
    /\ <>[](queue = <<>>)

\* The list is drained and the worker is back at the dequeue after a
\* transaction that failed with a Pack flushed: the id is used up and no
\* committed row has it.
C19_Witness ==
    /\ queue = <<>>
    /\ \A c \in SingleWorker : pc[c] = "blpop"
    /\ \E id \in 1..(sticker_packs_id_seq - 1) :
          \A p \in sticker_packs : p.id # id

\* C20: in every reachable committed state of the store every Pack row is
\* referenced by at least one Submission row, and the pack id of every
\* Submission row is the id of a Pack row.
C20_PackHasSubmission ==
    /\ \A p \in sticker_packs :
          \E r \in user_sticker_submissions : r.sticker_pack_id = p.id
    /\ \A r \in user_sticker_submissions :
          \E p \in sticker_packs : p.id = r.sticker_pack_id

\* A Pack that was not in the store initially was committed with its first
\* Submission and a second user's Submission was added to it later.
C20_Witness ==
    \E p \in sticker_packs \ SeededStore.packs :
        Cardinality({r \in user_sticker_submissions :
                        r.sticker_pack_id = p.id}) = 2
====
